---- MODULE Spec2Model ----
(***************************************************************************)
(* Ownership reconciliation and cleanup execution of the Conan Exiles      *)
(* database analyzer.  The database is a set of tables; the operator       *)
(* drives the menus of SQLite_Orphaned_Items_Analysis.py and the automated *)
(* cleanup of ConanExiles_SQLite_Database_Analyzer.py one input at a time. *)
(***************************************************************************)
EXTENDS Integers, Sequences, FiniteSets, TLC

\* ---------------------------------------------------------------- bounds
\* Largest owner reference that appears in a table.
MaxId == 3
\* Largest number of rows of item_inventory in an initial database.
MaxRows == 3
\* Largest number of ids in an orphaned-id set drawn for analyze_id_patterns.
MaxPatternIds == 11
\* Largest number of rows of game_events in an initial database.
MaxEvents == 2
\* Largest number of backup copies written in one run.
MaxBackups == 2

\* Ids a table may hold in an initial database.  Id 2 can be a character
\* and a structure at once, id 3 a structure and a guild; every id of
\* OwnerIds can own item rows, so every id can also be orphaned.
OwnerIds == 0..MaxId
CharIds == {1, 2}
StructIds == {2, 3}
GuildIds == {3}
\* One slot type of each kind: personal, external storage, and a type that
\* is in neither of the two sets of __init__.
InvTypes == {0, 4, 27}

\* ------------------------------------------------------------- variables
VARIABLES
    tables,            \* names of the tables that exist in the database
    damage_columns,    \* the character table has the columns the damage query reads
    characters,        \* rows of the character table: [id, isAlive]
    actor_position,    \* ids of the rows of actor_position
    guilds,            \* guildId of the rows of guilds
    item_inventory,    \* rows of item_inventory: [owner_id, inv_type]
    pc,                \* the prompt the program is waiting at
    analysis,          \* result of analyze_orphaned_items held by the menus
    cleanup_commands,  \* list returned by print_analysis
    cmd,               \* index of the command handed to show_cleanup_details_and_execute
    confirm1,          \* local of execute_cleanup_command
    confirm2,          \* local of execute_cleanup_command
    issued,            \* statements sent to the database by the last step
    game_events,       \* the game_events table: has a time column, rows [id, age]
    days,              \* local of run_cleanup_manager: days of events to keep
    backup_files,      \* number of backup copies of the database file written
    returned           \* <<value>> returned by delete_old_events in the last step
                       \* of an events flow, <<>> when that step did not call it

vars == <<tables, damage_columns, characters, actor_position, guilds,
          item_inventory, pc, analysis, cleanup_commands, cmd, confirm1,
          confirm2, issued, game_events, days, backup_files, returned>>

\* The tables no cleanup of the item analysis writes, and the state of the
\* events flows.
db == <<tables, damage_columns, characters, actor_position, guilds, game_events,
        backup_files, returned>>

\* ------------------------------------------------------------ __init__
personal_inventory_types == {0, 1, 2, 3}
external_storage_types == 4..26

\* ------------------------------------------------------------ helpers
RECURSIVE SumOver(_, _)
SumOver(f, S) ==
    IF S = {} THEN 0
    ELSE LET x == CHOOSE y \in S : TRUE
         IN f[x] + SumOver(f, S \ {x})

\* sqlite_master lookup
TableExists(t) == t \in tables

\* SELECT id FROM <table>
SelectIds(t) ==
    CASE t = "actor_position" -> actor_position
      [] t = "guilds" -> guilds
      [] OTHER -> {c.id : c \in characters}

\* ---------------------------------------------------- SQL statement lines
\* A line of a command's sql text: its first word (head), the table a DELETE
\* names, and the WHERE conditions written on that same line.
OwnerNotIn(t) == [col |-> "owner_id", table |-> t, types |-> {}]
InvTypeIn(S) == [col |-> "inv_type", table |-> "", types |-> S]

Comment(preds) == [head |-> "--", table |-> "", preds |-> preds]
Blank == [head |-> "", table |-> "", preds |-> <<>>]
DeleteLine(t, preds) == [head |-> "DELETE", table |-> t, preds |-> preds]
WhereLine(p) == [head |-> "WHERE", table |-> "", preds |-> <<p>>]
AndLine(p) == [head |-> "AND", table |-> "", preds |-> <<p>>]
VacuumLine == [head |-> "VACUUM", table |-> "", preds |-> <<>>]

\* Tables a statement reads or writes; a missing one is a sqlite3.Error.
TablesOf(line) ==
    (IF line.table = "" THEN {} ELSE {line.table})
    \cup {line.preds[i].table : i \in {j \in DOMAIN line.preds : line.preds[j].col = "owner_id"}}

\* A row satisfies one WHERE condition.
RowMatches(r, p) ==
    IF p.col = "owner_id" THEN r.owner_id \notin SelectIds(p.table)
    ELSE r.inv_type \in p.types

\* Rows of item_inventory a DELETE consisting of this one line removes.
RowsDeleted(line, rows) ==
    {r \in rows : \A i \in DOMAIN line.preds : RowMatches(r, line.preds[i])}

\* ------------------------------------------------- analyze_cleanup_damage
\* Rows of item_inventory owned by one id.
ItemsOf(id) == {r \in item_inventory : r.owner_id = id}

\* The entry appended for a character, or no entry.
\* Variant: the branch for a character without any item is missing.
DamageEntry_without_empty_branch(char_id) ==
    LET remaining_types == {r.inv_type : r \in ItemsOf(char_id)}
        has_personal_items == (personal_inventory_types \cap remaining_types) # {}
        has_external_storage == (external_storage_types \cap remaining_types) # {}
        total_items == Cardinality(ItemsOf(char_id))
    IN  IF has_personal_items /\ ~has_external_storage /\ total_items > 0
        THEN {[char_id |-> char_id, total_items |-> total_items, has_personal_only |-> TRUE]}
        ELSE {}

DamageEntry(char_id) ==
    LET remaining_types == {r.inv_type : r \in ItemsOf(char_id)}
        has_personal_items == (personal_inventory_types \cap remaining_types) # {}
        has_external_storage == (external_storage_types \cap remaining_types) # {}
        total_items == Cardinality(ItemsOf(char_id))
    IN  IF has_personal_items /\ ~has_external_storage /\ total_items > 0
        THEN {[char_id |-> char_id, total_items |-> total_items, has_personal_only |-> TRUE]}
        ELSE IF total_items = 0
        THEN {[char_id |-> char_id, total_items |-> 0, has_personal_only |-> FALSE]}
        ELSE {}

analyze_cleanup_damage ==
    IF ~damage_columns
    THEN {}    \* the query raises, the except branch returns []
    ELSE LET active_chars == {c.id : c \in {x \in characters : x.isAlive = 1}}
         IN  UNION {DamageEntry(id) : id \in active_chars}

\* ------------------------------------------------- analyze_orphaned_items
char_table_name ==
    IF TableExists("characters") THEN "characters"
    ELSE IF TableExists("character") THEN "character"
    ELSE "players"

existing_chars == SelectIds(char_table_name)
existing_structures == SelectIds("actor_position")
all_owner_ids == {r.owner_id : r \in item_inventory}

\* Variant: the single test, owner not a character.
deleted_char_ids_not_characters == all_owner_ids \ existing_chars

deleted_char_ids == (all_owner_ids \ existing_chars) \ existing_structures
structure_owned_items == all_owner_ids \cap existing_structures

\* Variant: the flag needs more than one affected player.
cleanup_damage_detected_above_one(affected_active_players) ==
    Cardinality(affected_active_players) > 1

cleanup_damage_detected(affected_active_players) ==
    Cardinality(affected_active_players) > 0

\* ---------------------------------------------------- analyze_id_patterns
\* sorted(deleted_ids)
RECURSIVE sorted(_)
sorted(S) ==
    IF S = {} THEN <<>>
    ELSE LET m == CHOOSE x \in S : \A y \in S : x <= y
         IN  <<m>> \o sorted(S \ {m})

\* The string appended for a range: f"{start}" holds one decimal number,
\* f"{start}-{end}" two; the string is modelled by the numbers it holds.
RangeString(start, end) == IF start = end THEN <<start>> ELSE <<start, end>>

\* The for loop over sorted_ids from index i on, followed by the statement
\* that adds the last range.
RECURSIVE ScanIds(_, _, _, _, _)
ScanIds(sorted_ids, i, start, end, ranges) ==
    IF i > Len(sorted_ids) THEN Append(ranges, RangeString(start, end))
    ELSE IF sorted_ids[i] = end + 1
    THEN ScanIds(sorted_ids, i + 1, start, sorted_ids[i], ranges)
    ELSE ScanIds(sorted_ids, i + 1, sorted_ids[i], sorted_ids[i],
                 Append(ranges, RangeString(start, end)))

\* ranges[:10]
RangesKept == 10
\* len(ranges) < len(deleted_ids) / 10
SequentialDivisor == 10

\* The empty dictionary returned for an empty set; the fields hold what
\* .get(...) yields for a missing key.
NoPatterns ==
    [min_deleted_id |-> 0, max_deleted_id |-> 0, id_ranges |-> <<>>,
     total_ranges |-> 0, appears_sequential |-> FALSE]

\* Variant: the ranges are compared with the span of the ids.
analyze_id_patterns_id_span(deleted_ids) ==
    IF deleted_ids = {} THEN NoPatterns
    ELSE LET sorted_ids == sorted(deleted_ids)
             ranges == ScanIds(sorted_ids, 2, sorted_ids[1], sorted_ids[1], <<>>)
             kept == IF Len(ranges) < RangesKept THEN Len(ranges) ELSE RangesKept
         IN  [min_deleted_id |-> sorted_ids[1],
              max_deleted_id |-> sorted_ids[Len(sorted_ids)],
              id_ranges |-> SubSeq(ranges, 1, kept),
              total_ranges |-> Len(ranges),
              appears_sequential |->
                  SequentialDivisor * Len(ranges)
                      < sorted_ids[Len(sorted_ids)] - sorted_ids[1] + 1]

\* Variant: the comparison made with <= instead of <.
analyze_id_patterns_at_most(deleted_ids) ==
    IF deleted_ids = {} THEN NoPatterns
    ELSE LET sorted_ids == sorted(deleted_ids)
             ranges == ScanIds(sorted_ids, 2, sorted_ids[1], sorted_ids[1], <<>>)
             kept == IF Len(ranges) < RangesKept THEN Len(ranges) ELSE RangesKept
         IN  [min_deleted_id |-> sorted_ids[1],
              max_deleted_id |-> sorted_ids[Len(sorted_ids)],
              id_ranges |-> SubSeq(ranges, 1, kept),
              total_ranges |-> Len(ranges),
              appears_sequential |->
                  SequentialDivisor * Len(ranges) <= Cardinality(deleted_ids)]

analyze_id_patterns(deleted_ids) ==
    IF deleted_ids = {} THEN NoPatterns
    ELSE LET sorted_ids == sorted(deleted_ids)
             ranges == ScanIds(sorted_ids, 2, sorted_ids[1], sorted_ids[1], <<>>)
             kept == IF Len(ranges) < RangesKept THEN Len(ranges) ELSE RangesKept
         IN  [min_deleted_id |-> CHOOSE x \in deleted_ids : \A y \in deleted_ids : x <= y,
              max_deleted_id |-> CHOOSE x \in deleted_ids : \A y \in deleted_ids : x >= y,
              id_ranges |-> SubSeq(ranges, 1, kept),
              total_ranges |-> Len(ranges),
              \* the float comparison, with both sides multiplied by 10
              appears_sequential |->
                  SequentialDivisor * Len(ranges) < Cardinality(deleted_ids)]

\* check_other_tables: the tables, of game_events, buildings,
\* buildable_health, actor_position and properties, that hold one of the
\* first five deleted ids in the column looked at.  Of these the databases
\* have actor_position only (their game_events has no player_id or
\* target_id column), and no deleted id is the id of a structure.
check_other_tables(deleted_ids) ==
    IF TableExists("actor_position") /\ deleted_ids \cap actor_position # {}
    THEN {"actor_position.id"} ELSE {}

\* The dictionary with the "error" key; the other fields hold what
\* analysis.get(...) yields for a missing key.
ErrorAnalysis ==
    [error |-> TRUE,
     total_deleted_characters |-> 0,
     total_orphaned_items |-> 0,
     deleted_characters |-> {},
     id_ranges |-> NoPatterns,
     existing_characters |-> 0,
     existing_structures |-> 0,
     structure_owned_items |-> 0,
     additional_info |-> {},
     char_table_name |-> "",
     affected_active_players |-> {},
     cleanup_damage_detected |-> FALSE]

\* No analysis is held (the menus of the orphaned analyzer are not running).
NoAnalysis == [ErrorAnalysis EXCEPT !.error = FALSE]

analyze_orphaned_items ==
    IF ~TableExists("item_inventory") THEN ErrorAnalysis
    ELSE IF ~(TableExists("characters") \/ TableExists("character") \/ TableExists("players"))
    THEN ErrorAnalysis
    ELSE IF ~TableExists("actor_position") THEN ErrorAnalysis  \* the SELECT raises
    ELSE
    LET affected_active_players == analyze_cleanup_damage
        item_count == [id \in deleted_char_ids |-> Cardinality(ItemsOf(id))]
    IN  [error |-> FALSE,
         total_deleted_characters |-> Cardinality(deleted_char_ids),
         total_orphaned_items |-> SumOver(item_count, deleted_char_ids),
         deleted_characters |-> {[id |-> id, item_count |-> item_count[id]] : id \in deleted_char_ids},
         id_ranges |-> analyze_id_patterns(deleted_char_ids),
         existing_characters |-> Cardinality(existing_chars),
         existing_structures |-> Cardinality(existing_structures),
         structure_owned_items |-> Cardinality(structure_owned_items),
         additional_info |-> check_other_tables(deleted_char_ids),
         char_table_name |-> char_table_name,
         affected_active_players |-> affected_active_players,
         cleanup_damage_detected |-> cleanup_damage_detected(affected_active_players)]

\* ----------------------------------------- generate_safe_cleanup_commands
Comments(n) == [i \in 1..n |-> Comment(<<>>)]

\* A command: the words of its title, whether it has a 'warning' key, the
\* lines of its sql text and the number written into its impact text.
DamageControlCommand ==
    [title |-> {"DAMAGE", "CONTROL"}, warning |-> TRUE,
     sql |-> Comments(2), impact |-> 0]

\* Variant: the informational entry carries the statement of the Safe action.
NoCleanupNeededCommand_with_statement ==
    [title |-> {"NO", "CLEANUP", "NEEDED"}, warning |-> FALSE,
     sql |-> Comments(9)
             \o <<DeleteLine("item_inventory", <<>>),
                  WhereLine(OwnerNotIn("characters")),
                  AndLine(OwnerNotIn("actor_position"))>>,
     impact |-> 0]

NoCleanupNeededCommand ==
    [title |-> {"NO", "CLEANUP", "NEEDED"}, warning |-> FALSE,
     sql |-> Comments(9), impact |-> 0]

comparison_info(a) ==
    IF a.structure_owned_items > 0 THEN <<Blank>> \o Comments(2) ELSE <<Blank>>

\* Variant: the Safe action annotated with the number of orphaned ids.
RecommendedCommand_id_count(a) ==
    [title |-> {"RECOMMENDED"}, warning |-> FALSE,
     sql |-> Comments(2) \o comparison_info(a) \o Comments(5)
             \o <<DeleteLine("item_inventory", <<>>),
                  WhereLine(OwnerNotIn(a.char_table_name)),
                  AndLine(OwnerNotIn("actor_position")),
                  Blank>>
             \o Comments(2),
     impact |-> a.total_deleted_characters]

RecommendedCommand(a) ==
    [title |-> {"RECOMMENDED"}, warning |-> FALSE,
     sql |-> Comments(2) \o comparison_info(a) \o Comments(5)
             \o <<DeleteLine("item_inventory", <<>>),
                  WhereLine(OwnerNotIn(a.char_table_name)),
                  AndLine(OwnerNotIn("actor_position")),
                  Blank>>
             \o Comments(2),
     impact |-> a.total_orphaned_items]

ConservativeCommand(a) ==
    [title |-> {"CONSERVATIVE"}, warning |-> FALSE,
     sql |-> Comments(1)
             \o <<DeleteLine("item_inventory", <<>>),
                  WhereLine(OwnerNotIn(a.char_table_name)),
                  AndLine(OwnerNotIn("actor_position")),
                  AndLine(InvTypeIn({0, 1, 2, 3})),
                  Blank>>
             \o Comments(2),
     impact |-> 0]

\* Variant: the Dangerous action annotated with the orphaned-id count.
DangerousCommand_orphaned_count(a) ==
    [title |-> {"DANGEROUS"}, warning |-> TRUE,
     sql |-> <<Comment(<<>>), Comment(<<OwnerNotIn("characters")>>), Blank>>
             \o Comments(23),
     impact |-> a.total_deleted_characters]

DangerousCommand(a) ==
    [title |-> {"DANGEROUS"}, warning |-> TRUE,
     sql |-> <<Comment(<<>>),
               Comment(<<OwnerNotIn("characters")>>),   \* the DELETE, commented out
               Blank>>
             \o Comments(23),
     impact |-> a.structure_owned_items]

\* Variant: the empty-orphan test made before the damage test.
generate_safe_cleanup_commands_orphans_first(a) ==
    IF a.total_orphaned_items = 0 THEN <<NoCleanupNeededCommand>>
    ELSE IF a.cleanup_damage_detected THEN <<DamageControlCommand>>
    ELSE <<RecommendedCommand(a), ConservativeCommand(a), DangerousCommand(a)>>

generate_safe_cleanup_commands(a) ==
    IF a.cleanup_damage_detected THEN <<DamageControlCommand>>
    ELSE IF a.total_orphaned_items = 0 THEN <<NoCleanupNeededCommand>>
    ELSE <<RecommendedCommand(a), ConservativeCommand(a), DangerousCommand(a)>>

\* --------------------------------------- generate_recovery_possibilities
\* The methods of the possibilities, in the order appended.
\* Variant: a missing 'appears_sequential' key counts as true.
generate_recovery_possibilities_default_true(a) ==
    (IF a.cleanup_damage_detected THEN <<"CLEANUP DAMAGE DETECTED">> ELSE <<>>)
    \o (IF a.additional_info # {} THEN <<"Check game_events table">> ELSE <<>>)
    \o (IF a.id_ranges = NoPatterns \/ a.id_ranges.appears_sequential
        THEN <<"Mass deletion detected">> ELSE <<>>)
    \o <<"Check backup databases">>

generate_recovery_possibilities(a) ==
    (IF a.cleanup_damage_detected THEN <<"CLEANUP DAMAGE DETECTED">> ELSE <<>>)
    \o (IF a.additional_info # {} THEN <<"Check game_events table">> ELSE <<>>)
    \o (IF a.id_ranges.appears_sequential
        THEN <<"Mass deletion detected">> ELSE <<>>)
    \o <<"Check backup databases">>

\* print_analysis, 'if analysis.get("id_ranges")': the pattern section is
\* printed for a dictionary that is not empty.
pattern_section_printed(a) == a.id_ranges # NoPatterns

\* print_analysis returns None for an error result (modelled as <<>>; the
\* menus test analysis.error where the code would iterate over None).
\* Variant: the test for the "error" key is missing.
print_analysis_without_error_test(a) == generate_safe_cleanup_commands(a)

print_analysis(a) ==
    IF a.error THEN <<>> ELSE generate_safe_cleanup_commands(a)

\* No game_events table.
NoEvents == [time_column |-> FALSE, rows |-> {}]

\* ------------------------------------------------------- initial database
FullTables == {"item_inventory", "characters", "actor_position", "guilds"}

\* Schemas of the databases the tool is pointed at: the full game schema,
\* one with a character table that lacks the columns of the damage query,
\* one per missing table the item analysis reads, and one whose character
\* table is named players.  rows bounds the item rows of its databases.
Schemas ==
    {[tables |-> FullTables, damage_columns |-> TRUE, rows |-> MaxRows],
     [tables |-> FullTables, damage_columns |-> FALSE, rows |-> MaxRows - 1],
     [tables |-> FullTables \ {"item_inventory"}, damage_columns |-> TRUE, rows |-> 0],
     [tables |-> FullTables \ {"characters"}, damage_columns |-> TRUE, rows |-> MaxRows - 1],
     [tables |-> (FullTables \ {"characters"}) \cup {"players"}, damage_columns |-> TRUE,
      rows |-> MaxRows - 1],
     [tables |-> FullTables \ {"actor_position"}, damage_columns |-> TRUE, rows |-> MaxRows - 1]}

\* Character 1 is absent, dead or alive; character 2 is absent or alive.
CharacterTables ==
    UNION {{{[id |-> i, isAlive |-> f[i]] : i \in S} :
              f \in {g \in [S -> {0, 1}] : 2 \in S => g[2] = 1}} : S \in SUBSET CharIds}

StructureTables == {S \in SUBSET StructIds : 2 \in S => 3 \in S}

ItemRows == [owner_id : OwnerIds, inv_type : InvTypes]
ItemTables == {I \in SUBSET ItemRows : Cardinality(I) <= MaxRows}

Init ==
    /\ \E s \in Schemas :
          /\ tables = s.tables
          /\ damage_columns = s.damage_columns
          /\ item_inventory \in {I \in ItemTables : Cardinality(I) <= s.rows}
    /\ characters \in (IF {"characters", "players"} \cap tables # {} THEN CharacterTables ELSE {{}})
    /\ actor_position \in (IF "actor_position" \in tables THEN StructureTables ELSE {{}})
    /\ guilds = (IF "guilds" \in tables THEN GuildIds ELSE {})
    /\ pc = "top"
    /\ analysis = NoAnalysis
    /\ cleanup_commands = <<>>
    /\ cmd = 0
    /\ confirm1 = ""
    /\ confirm2 = ""
    /\ issued = <<>>
    /\ backup_files = 0
    /\ returned = <<>>
    /\ game_events = NoEvents
    /\ days = 0

\* ------------------------------------------------------- operator inputs
MenuChoices == 0..4
Confirm1Inputs == {"BACKUP DONE", "backup done", ""}
Confirm2Inputs == {"EXECUTE", "yes", ""}
YesNoInputs == {"y", "n", ""}
AutoConfirmInputs == {"YES", "yes", ""}

\* --------------------------------------------------------------- records
\* A statement sent to the database: the line executed, the function that
\* sent it, the title of the command it came from, the confirmations the
\* operator had typed in that flow and whether the database accepted it;
\* with it the item rows before the step, whether the analysis the menus
\* held had flagged a character, and whether the damage detector would
\* flag one on the database as it was when the statement ran.
Stmt(line, via, title, confirmations, ok) ==
    [line |-> line, via |-> via, title |-> title,
     confirmations |-> confirmations, ok |-> ok,
     before |-> item_inventory,
     flagged |-> analysis.affected_active_players # {},
     damage_now |-> analyze_cleanup_damage # {}]

\* The orphaned analyzer's menus have returned to the caller's menu loop
\* (normally or through an exception caught by main's except Exception).
ReturnToTop ==
    /\ pc' = "top"
    /\ analysis' = NoAnalysis
    /\ cleanup_commands' = <<>>
    /\ cmd' = 0
    /\ confirm1' = ""
    /\ confirm2' = ""

\* Back at the prompt of run_interactive_cleanup_menu.
BackToCleanupMenu ==
    /\ pc' = "cleanup_menu"
    /\ cmd' = 0
    /\ confirm1' = ""
    /\ confirm2' = ""
    /\ UNCHANGED <<analysis, cleanup_commands>>

\* -------------------------------------------------- main(), choice "4"
OrphanedAnalysis ==
    /\ pc = "top"
    /\ analysis' = analyze_orphaned_items
    /\ cleanup_commands' = print_analysis(analysis')
    /\ pc' = IF analysis'.cleanup_damage_detected THEN "export_menu" ELSE "main_menu"
    /\ issued' = <<>>
    /\ UNCHANGED <<db, days, item_inventory, cmd, confirm1, confirm2>>

\* ------------------------------------------------------- run_main_menu
\* The statements after the if/else of run_main_menu: a VACUUM, then the
\* export of the affected players, which returns at once when there are
\* none and raises on the unbound filename otherwise.
MainMenuTail ==
    /\ issued' = <<Stmt(VacuumLine, "run_main_menu", {}, <<>>, TRUE)>>
    /\ ReturnToTop
    /\ UNCHANGED <<db, days, item_inventory>>

\* An exception leaves run_main_menu before its last statements.
MainMenuRaise ==
    /\ issued' = <<>>
    /\ ReturnToTop
    /\ UNCHANGED <<db, days, item_inventory>>

Stay ==
    /\ issued' = <<>>
    /\ UNCHANGED <<db, days, item_inventory, pc, analysis, cleanup_commands, cmd, confirm1, confirm2>>

run_main_menu(choice) ==
    /\ pc = "main_menu"
    /\ CASE choice = 1 ->
              \* run_interactive_cleanup_menu
              IF analysis.cleanup_damage_detected THEN MainMenuTail
              ELSE IF analysis.error THEN MainMenuRaise   \* enumerate(None)
              ELSE /\ pc' = "cleanup_menu"
                   /\ issued' = <<>>
                   /\ UNCHANGED <<db, days, item_inventory, analysis, cleanup_commands, cmd, confirm1, confirm2>>
         [] choice = 2 -> MainMenuTail
         [] choice = 3 ->
              IF analysis.affected_active_players # {}
              THEN MainMenuRaise    \* export_affected_players is not defined
              ELSE MainMenuTail
         [] OTHER -> Stay

\* The branch taken when damage was detected: export options only.
run_main_menu_damage(choice) ==
    /\ pc = "export_menu"
    /\ LET export_options ==
               (IF analysis.deleted_characters # {} THEN <<"deleted">> ELSE <<>>)
               \o (IF analysis.affected_active_players # {} THEN <<"affected">> ELSE <<>>)
       IN  CASE choice = 0 -> MainMenuTail
             [] choice = 1 /\ Len(export_options) >= 1 ->
                  IF export_options[1] = "deleted" THEN MainMenuTail ELSE MainMenuRaise
             [] choice = 2 /\ Len(export_options) >= 2 -> MainMenuRaise
             [] OTHER -> Stay

\* ---------------------------------------- run_interactive_cleanup_menu
\* Variant: every listed command is offered for execution.
run_interactive_cleanup_menu_unfiltered(choice) ==
    /\ pc = "cleanup_menu"
    /\ IF choice = 0 THEN MainMenuTail
       ELSE IF 1 <= choice /\ choice <= Len(cleanup_commands)
       THEN /\ pc' = "exec_options"
            /\ cmd' = choice
            /\ issued' = <<>>
            /\ UNCHANGED <<db, days, item_inventory, analysis, cleanup_commands, confirm1, confirm2>>
       ELSE Stay

run_interactive_cleanup_menu(choice) ==
    /\ pc = "cleanup_menu"
    /\ IF choice = 0 THEN MainMenuTail
       ELSE IF 1 <= choice /\ choice <= Len(cleanup_commands)
       THEN LET c == cleanup_commands[choice]
            IN  IF c.warning THEN Stay
                \* show_cleanup_details_and_execute up to its prompt
                ELSE IF "DANGEROUS" \in c.title THEN Stay
                ELSE /\ pc' = "exec_options"
                     /\ cmd' = choice
                     /\ issued' = <<>>
                     /\ UNCHANGED <<db, days, item_inventory, analysis, cleanup_commands, confirm1, confirm2>>
       ELSE Stay

\* ------------------------------------ show_cleanup_details_and_execute
show_cleanup_details_and_execute(exec_choice) ==
    /\ pc = "exec_options"
    /\ issued' = <<>>
    /\ UNCHANGED <<db, days, item_inventory>>
    /\ CASE exec_choice = 1 ->
              /\ pc' = "confirm1"
              /\ UNCHANGED <<analysis, cleanup_commands, cmd, confirm1, confirm2>>
         [] exec_choice \in {2, 3} -> BackToCleanupMenu
         [] OTHER -> UNCHANGED <<pc, analysis, cleanup_commands, cmd, confirm1, confirm2>>

\* ---------------------------------------------- execute_cleanup_command
\* Lines of the sql text that are neither empty nor comments.
sql_lines(c) == SelectSeq(c.sql, LAMBDA l : l.head # "" /\ l.head # "--")

\* The lines handed to cursor.execute, each as a statement of its own.
delete_lines(c) == SelectSeq(sql_lines(c), LAMBDA l : l.head = "DELETE")

\* item_inventory after the statements ran one after the other.
RECURSIVE ExecuteLines(_, _)
ExecuteLines(lines, rows) ==
    IF lines = <<>> THEN rows
    ELSE ExecuteLines(Tail(lines), rows \ RowsDeleted(Head(lines), rows))

\* sqlite3 raises for a statement that names a table that does not exist.
NoSuchTable(lines) == \E i \in DOMAIN lines : ~(TablesOf(lines[i]) \subseteq tables)

execute_cleanup_command_confirm1(input) ==
    /\ pc = "confirm1"
    /\ issued' = <<>>
    /\ UNCHANGED <<db, days, item_inventory>>
    /\ IF input # "BACKUP DONE"
       THEN BackToCleanupMenu
       ELSE /\ pc' = "confirm2"
            /\ confirm1' = input
            /\ UNCHANGED <<analysis, cleanup_commands, cmd, confirm2>>

\* Variant: a rejected statement is run a second time, and that run passes.
execute_cleanup_command_confirm2_retry(input, rejected) ==
    /\ pc = "confirm2"
    /\ UNCHANGED <<db, days>>
    /\ IF input # "EXECUTE"
       THEN /\ issued' = <<>>
            /\ UNCHANGED item_inventory
            /\ BackToCleanupMenu
       ELSE LET c == cleanup_commands[cmd]
                lines == delete_lines(c)
                fails == lines # <<>> /\ (rejected \/ NoSuchTable(lines))
                again == IF fails /\ ~NoSuchTable(lines) THEN lines ELSE <<>>
            IN  /\ issued' = [i \in DOMAIN lines |->
                                Stmt(lines[i], "execute_cleanup_command", c.title,
                                     <<confirm1, input>>, ~fails)]
                              \o [i \in DOMAIN again |->
                                Stmt(again[i], "execute_cleanup_command", c.title,
                                     <<confirm1, input>>, TRUE)]
                /\ item_inventory' = IF fails /\ again = <<>> THEN item_inventory
                                     ELSE ExecuteLines(lines, item_inventory)
                /\ IF fails
                   THEN BackToCleanupMenu
                   ELSE /\ pc' = "vacuum_prompt"
                        /\ confirm2' = input
                        /\ UNCHANGED <<analysis, cleanup_commands, cmd, confirm1>>

\* rejected: the database raises sqlite3.Error on the statement (locked
\* file, disk error); nothing was committed, so nothing changes.
execute_cleanup_command_confirm2(input, rejected) ==
    /\ pc = "confirm2"
    /\ UNCHANGED <<db, days>>
    /\ IF input # "EXECUTE"
       THEN /\ issued' = <<>>
            /\ UNCHANGED item_inventory
            /\ BackToCleanupMenu
       ELSE LET c == cleanup_commands[cmd]
                lines == delete_lines(c)
                fails == lines # <<>> /\ (rejected \/ NoSuchTable(lines))
            IN  /\ issued' = [i \in DOMAIN lines |->
                                Stmt(lines[i], "execute_cleanup_command", c.title,
                                     <<confirm1, input>>, ~fails)]
                /\ item_inventory' = IF fails THEN item_inventory
                                     ELSE ExecuteLines(lines, item_inventory)
                /\ IF fails
                   THEN BackToCleanupMenu
                   ELSE /\ pc' = "vacuum_prompt"
                        /\ confirm2' = input
                        /\ UNCHANGED <<analysis, cleanup_commands, cmd, confirm1>>

\* The VACUUM offer: run_vacuum_optimization is not defined, the
\* AttributeError is caught by except Exception; either answer returns.
execute_cleanup_command_vacuum(vacuum_choice) ==
    /\ pc = "vacuum_prompt"
    /\ vacuum_choice \in YesNoInputs
    /\ issued' = <<>>
    /\ UNCHANGED <<db, days, item_inventory>>
    /\ BackToCleanupMenu

\* ------------------------------------- generate_cleanup_recommendations
generate_cleanup_recommendations ==
    IF TableExists("item_inventory") /\ TableExists("characters")
    THEN LET orphaned == Cardinality({i \in item_inventory :
                             ~\E c \in characters : c.id = i.owner_id})
         IN  IF orphaned > 0
             THEN <<[description |-> orphaned,
                     sql |-> DeleteLine("item_inventory", <<OwnerNotIn("characters")>>),
                     impact |-> "medium"]>>
             ELSE <<>>
    ELSE <<>>

\* ------------------------------------------------ run_automated_cleanup
\* The part after the confirmation: the recommendations are printed and,
\* unless dry_run, executed and followed by run_vacuum.
AutomatedCleanup(dry_run, confirmations, rejected) ==
    LET recommendations == generate_cleanup_recommendations
        lines == IF dry_run THEN <<>>
                 ELSE [i \in DOMAIN recommendations |-> recommendations[i].sql]
        fails == rejected \/ NoSuchTable(lines)
    IN  /\ item_inventory' = IF fails THEN item_inventory
                             ELSE ExecuteLines(lines, item_inventory)
        /\ issued' = [i \in DOMAIN lines |->
                        Stmt(lines[i], "run_automated_cleanup", {},
                             confirmations, ~fails)]
                     \o (IF ~dry_run /\ recommendations # <<>>
                         THEN <<Stmt(VacuumLine, "run_automated_cleanup", {},
                                     confirmations, TRUE)>>
                         ELSE <<>>)

\* main(), choice "7": dry run first, or straight to the live run.
main_cleanup(cleanup_choice) ==
    /\ pc = "top"
    /\ UNCHANGED <<db, days, analysis, cleanup_commands, cmd, confirm1, confirm2>>
    /\ CASE cleanup_choice = "y" ->
              /\ AutomatedCleanup(TRUE, <<>>, FALSE)
              /\ pc' = "auto_proceed"
         [] cleanup_choice = "n" ->
              /\ pc' = "auto_confirm"
              /\ issued' = <<>>
              /\ UNCHANGED item_inventory
         [] OTHER ->
              /\ issued' = <<>>
              /\ UNCHANGED <<pc, item_inventory>>

main_cleanup_proceed(proceed) ==
    /\ pc = "auto_proceed"
    /\ pc' = IF proceed = "y" THEN "auto_confirm" ELSE "top"
    /\ issued' = <<>>
    /\ UNCHANGED <<db, days, item_inventory, analysis, cleanup_commands, cmd, confirm1, confirm2>>

\* run_automated_cleanup(dry_run=False) at its confirmation prompt.
run_automated_cleanup(confirm, rejected) ==
    /\ pc = "auto_confirm"
    /\ pc' = "top"
    /\ UNCHANGED <<db, days, analysis, cleanup_commands, cmd, confirm1, confirm2>>
    /\ IF confirm # "YES"
       THEN /\ issued' = <<>>
            /\ UNCHANGED item_inventory
       ELSE AutomatedCleanup(FALSE, <<confirm>>, rejected)

\* ------------------------------------------------------------------ Next
Next ==
    \/ OrphanedAnalysis
    \/ \E choice \in MenuChoices : run_main_menu(choice)
    \/ \E choice \in MenuChoices : run_main_menu_damage(choice)
    \/ \E choice \in MenuChoices : run_interactive_cleanup_menu(choice)
    \/ \E exec_choice \in MenuChoices : show_cleanup_details_and_execute(exec_choice)
    \/ \E input \in Confirm1Inputs : execute_cleanup_command_confirm1(input)
    \/ \E input \in Confirm2Inputs, rejected \in BOOLEAN :
          execute_cleanup_command_confirm2(input, rejected)
    \/ \E vacuum_choice \in YesNoInputs : execute_cleanup_command_vacuum(vacuum_choice)
    \/ \E cleanup_choice \in YesNoInputs : main_cleanup(cleanup_choice)
    \/ \E proceed \in YesNoInputs : main_cleanup_proceed(proceed)
    \/ \E confirm \in AutoConfirmInputs, rejected \in BOOLEAN :
          run_automated_cleanup(confirm, rejected)

Spec == Init /\ [][Next]_vars

\* ------------------------------------------------ EventsCleanupManager
\* Events of an initial database: up to MaxEvents rows, each with an age
\* in days (now minus the value of its time column).
EventAges == {1, 10, 40}
EventTables ==
    UNION {{[time_column |-> t, rows |-> {[id |-> i, age |-> f[i]] : i \in S}] :
               t \in BOOLEAN, f \in [S -> EventAges]} : S \in SUBSET (1..MaxEvents)}

\* get_event_stats: an error without the table; 'time_column' is set when
\* a column looks like a time column and MIN/MAX of it are not empty.
get_event_stats ==
    IF ~TableExists("game_events")
    THEN [error |-> TRUE, total_events |-> 0, time_column |-> FALSE]
    ELSE [error |-> FALSE, total_events |-> Cardinality(game_events.rows),
          time_column |-> game_events.time_column /\ game_events.rows # {}]

\* WHERE <time_col> < cutoff, cutoff being now minus days_to_keep.
TimeBefore(days_to_keep) == [col |-> "time", table |-> "", types |-> {days_to_keep}]
events_to_delete(days_to_keep) == {e \in game_events.rows : e.age > days_to_keep}

\* Where a call of delete_old_events meets an exception: nowhere, at the
\* SELECT COUNT, at the DELETE or its commit, or at one of the statements
\* after the commit (PRAGMA optimize, VACUUM, PRAGMA integrity_check).
Failures == {"none", "count", "delete", "optimize"}

\* Variant: the dry_run test only skips the confirmation prompt.
delete_old_events_dry_run_skips_prompt(days_to_keep, dry_run, confirm, fails_at, result) ==
    LET stats == get_event_stats
        doomed == events_to_delete(days_to_keep)
        line == DeleteLine("game_events", <<TimeBefore(days_to_keep)>>)
    IN  IF stats.error \/ ~stats.time_column \/ fails_at = "count"
        THEN result = FALSE /\ issued' = <<>> /\ UNCHANGED game_events
        ELSE IF doomed = {}
        THEN result = TRUE /\ issued' = <<>> /\ UNCHANGED game_events
        ELSE IF ~dry_run /\ confirm # "YES"
        THEN result = FALSE /\ issued' = <<>> /\ UNCHANGED game_events
        ELSE IF fails_at = "delete"
        THEN /\ result = FALSE
             /\ issued' = <<Stmt(line, "delete_old_events", {}, <<confirm>>, FALSE)>>
             /\ UNCHANGED game_events
        ELSE /\ result = (fails_at # "optimize")
             /\ game_events' = [game_events EXCEPT !.rows = @ \ doomed]
             /\ issued' = <<Stmt(line, "delete_old_events", {}, <<confirm>>, TRUE),
                            Stmt(VacuumLine, "delete_old_events", {}, <<confirm>>,
                                 fails_at # "optimize")>>

\* delete_old_events with the answer typed at its prompt; result is the
\* value returned.  An exception anywhere is caught by the except branch,
\* which returns False; the DELETE is committed before the statements
\* that optimize the database are run.
delete_old_events(days_to_keep, dry_run, confirm, fails_at, result) ==
    LET stats == get_event_stats
        doomed == events_to_delete(days_to_keep)
        line == DeleteLine("game_events", <<TimeBefore(days_to_keep)>>)
    IN  IF stats.error \/ ~stats.time_column \/ fails_at = "count"
        THEN result = FALSE /\ issued' = <<>> /\ UNCHANGED game_events
        ELSE IF doomed = {}
        THEN result = TRUE /\ issued' = <<>> /\ UNCHANGED game_events
        ELSE IF dry_run
        THEN result = TRUE /\ issued' = <<>> /\ UNCHANGED game_events
        ELSE IF confirm # "YES"
        THEN result = FALSE /\ issued' = <<>> /\ UNCHANGED game_events
        ELSE IF fails_at = "delete"
        THEN /\ result = FALSE
             /\ issued' = <<Stmt(line, "delete_old_events", {}, <<confirm>>, FALSE)>>
             /\ UNCHANGED game_events
        ELSE /\ result = (fails_at # "optimize")
             /\ game_events' = [game_events EXCEPT !.rows = @ \ doomed]
             /\ issued' = <<Stmt(line, "delete_old_events", {}, <<confirm>>, TRUE),
                            Stmt(VacuumLine, "delete_old_events", {}, <<confirm>>,
                                 fails_at # "optimize")>>

\* backup_database: shutil.copy2 writes the copy or raises (copy_ok);
\* result is the value returned.
backup_database(copy_ok, result) ==
    /\ backup_files < MaxBackups
    /\ result = copy_ok
    /\ backup_files' = IF copy_ok THEN backup_files + 1 ELSE backup_files

\* Inputs of the events menus.
EventsMenuChoices == 1..6
DaysValues == {0, 7, 30, 400}
DaysInputs ==
    {[kind |-> "c", value |-> 0], [kind |-> "text", value |-> 0]}
    \cup {[kind |-> "int", value |-> v] : v \in DaysValues}

\* What no step of the events flows writes.
EventsFrame ==
    UNCHANGED <<tables, damage_columns, characters, actor_position, guilds,
                item_inventory, analysis, cleanup_commands, cmd, confirm1, confirm2>>

\* main(), choice "8"
main_events_cleanup_manager ==
    /\ pc = "top"
    /\ pc' = "events_menu"
    /\ issued' = <<>>
    /\ returned' = <<>>
    /\ EventsFrame /\ UNCHANGED <<game_events, days, backup_files>>

\* run_cleanup_manager at its menu prompt.  Choices 1 and 3 read the
\* statistics or write a script file; choice 4 is backup_database.
run_cleanup_manager(choice, copy_ok) ==
    /\ pc = "events_menu"
    /\ pc' = CASE choice = 2 /\ ~get_event_stats.error -> "events_days"
               [] choice = 5 -> "top"
               [] OTHER -> "events_menu"
    /\ issued' = <<>>
    /\ returned' = <<>>
    /\ IF choice = 4
       THEN \E result \in BOOLEAN : backup_database(copy_ok, result)
       ELSE UNCHANGED backup_files
    /\ EventsFrame /\ UNCHANGED <<game_events, days>>

\* The prompt for the days to keep, followed by the dry run.
run_cleanup_manager_days(days_input, confirm365, fails_at) ==
    /\ pc = "events_days"
    /\ EventsFrame /\ UNCHANGED backup_files
    /\ IF days_input.kind = "c"
       THEN /\ pc' = "events_menu" /\ issued' = <<>> /\ returned' = <<>>
            /\ UNCHANGED <<game_events, days>>
       ELSE IF \/ days_input.kind = "text"
               \/ days_input.value < 1
               \/ (days_input.value > 365 /\ confirm365 # "y")
       THEN /\ issued' = <<>> /\ returned' = <<>>
            /\ UNCHANGED <<pc, game_events, days>>
       ELSE \E result \in BOOLEAN :
               /\ delete_old_events(days_input.value, TRUE, "", fails_at, result)
               /\ returned' = <<result>>
               /\ pc' = IF result THEN "events_proceed" ELSE "events_menu"
               /\ days' = IF result THEN days_input.value ELSE 0

\* Variant: the live run does not depend on the backup.
run_cleanup_manager_proceed_backup_ignored(proceed, copy_ok, confirm, fails_at) ==
    /\ pc = "events_proceed"
    /\ pc' = "events_menu"
    /\ days' = 0
    /\ EventsFrame
    /\ IF proceed = "y"
       THEN \E backed \in BOOLEAN :
               /\ backup_database(copy_ok, backed)
               /\ \E result \in BOOLEAN :
                      /\ delete_old_events(days, FALSE, confirm, fails_at, result)
                      /\ returned' = <<result>>
       ELSE /\ issued' = <<>> /\ returned' = <<>>
            /\ UNCHANGED <<game_events, backup_files>>

\* 'Proceed with actual cleanup?', the backup and the live run.
run_cleanup_manager_proceed(proceed, copy_ok, confirm, fails_at) ==
    /\ pc = "events_proceed"
    /\ pc' = "events_menu"
    /\ days' = 0
    /\ EventsFrame
    /\ IF proceed = "y"
       THEN \E backed \in BOOLEAN :
               /\ backup_database(copy_ok, backed)
               /\ IF backed
                  THEN \E result \in BOOLEAN :
                          /\ delete_old_events(days, FALSE, confirm, fails_at, result)
                          /\ returned' = <<result>>
                  ELSE /\ issued' = <<>> /\ returned' = <<>>
                       /\ UNCHANGED game_events
       ELSE /\ issued' = <<>> /\ returned' = <<>>
            /\ UNCHANGED <<game_events, backup_files>>

\* main() with --events-cleanup DAYS and, possibly, --dry-run.
main_events_cleanup_option(days_arg, dry_run, copy_ok, confirm, fails_at) ==
    /\ pc = "top"
    /\ days_arg # 0
    /\ EventsFrame /\ UNCHANGED <<pc, days>>
    /\ \E backed \in BOOLEAN :
          /\ backup_database(copy_ok, backed)
          /\ IF backed
             THEN \E result \in BOOLEAN :
                     /\ delete_old_events(days_arg, dry_run, confirm, fails_at, result)
                     /\ returned' = <<result>>
             ELSE /\ issued' = <<>> /\ returned' = <<>>
                  /\ UNCHANGED game_events

\* main() with --cleanup and, possibly, --dry-run.
main_cleanup_option(dry_run, confirm, rejected) ==
    /\ pc = "top"
    /\ UNCHANGED <<db, days, pc, analysis, cleanup_commands, cmd, confirm1, confirm2>>
    /\ IF dry_run THEN AutomatedCleanup(TRUE, <<>>, FALSE)
       ELSE IF confirm = "YES" THEN AutomatedCleanup(FALSE, <<confirm>>, rejected)
       ELSE issued' = <<>> /\ UNCHANGED item_inventory

\* A third specification: the events cleanup and the automated cleanup,
\* live and in dry-run mode, on databases with a game_events table.
InitDryRun ==
    /\ tables \in {FullTables, FullTables \cup {"game_events"}}
    /\ damage_columns = TRUE
    /\ characters = {[id |-> 1, isAlive |-> 1]}
    /\ actor_position = {3}
    /\ guilds = GuildIds
    /\ item_inventory \in {I \in ItemTables : Cardinality(I) <= MaxRows - 2}
    /\ game_events \in (IF "game_events" \in tables THEN EventTables ELSE {NoEvents})
    /\ days = 0
    /\ pc = "top"
    /\ analysis = NoAnalysis
    /\ cleanup_commands = <<>>
    /\ cmd = 0
    /\ confirm1 = ""
    /\ confirm2 = ""
    /\ issued = <<>>
    /\ backup_files = 0
    /\ returned = <<>>

NextDryRun ==
    \/ main_events_cleanup_manager
    \/ \E choice \in EventsMenuChoices, copy_ok \in BOOLEAN :
          run_cleanup_manager(choice, copy_ok)
    \/ \E days_input \in DaysInputs, confirm365 \in YesNoInputs, fails_at \in Failures :
          run_cleanup_manager_days(days_input, confirm365, fails_at)
    \/ \E proceed \in YesNoInputs, copy_ok \in BOOLEAN,
          confirm \in AutoConfirmInputs, fails_at \in Failures :
          run_cleanup_manager_proceed(proceed, copy_ok, confirm, fails_at)
    \/ \E days_arg \in DaysValues, dry_run \in BOOLEAN, copy_ok \in BOOLEAN,
          confirm \in AutoConfirmInputs, fails_at \in Failures :
          main_events_cleanup_option(days_arg, dry_run, copy_ok, confirm, fails_at)
    \/ \E dry_run \in BOOLEAN, confirm \in AutoConfirmInputs, rejected \in BOOLEAN :
          main_cleanup_option(dry_run, confirm, rejected)
    \/ \E cleanup_choice \in YesNoInputs : main_cleanup(cleanup_choice)
    \/ \E proceed \in YesNoInputs : main_cleanup_proceed(proceed)
    \/ \E confirm \in AutoConfirmInputs, rejected \in BOOLEAN :
          run_automated_cleanup(confirm, rejected)

SpecDryRun == InitDryRun /\ [][NextDryRun]_vars

\* ------------------------------------------------- run_interactive_mode
\* What the operator types at the SQL> prompt, lower-cased and split at
\* blanks.
InteractiveQueries ==
    {<<"exit">>, <<"tables">>, <<"describe", "item_inventory">>,
     <<"select", "*", "from", "item_inventory">>,
     <<"select", "created_at", "from", "characters">>,
     <<"delete", "from", "item_inventory">>,
     <<"replace", "into", "item_inventory", "values", "(0,0)">>,
     <<"with", "x", "as", "(select", "1)",
       "replace", "into", "item_inventory", "values", "(0,0)">>,
     <<"vacuum">>, <<"analyze">>, <<"reindex">>,
     <<"pragma", "user_version=7">>,
     <<"attach", "'x.db'", "as", "x">>}

dangerous_keywords == {"delete", "update", "insert", "drop", "alter", "create"}

\* keyword in word, for the words of InteractiveQueries.
KeywordIn(keyword, word) ==
    \/ word = keyword
    \/ (word = "created_at" /\ keyword = "create")

\* any(keyword in query.lower() for keyword in dangerous_keywords); no
\* keyword holds a blank, so it lies inside one word.
is_dangerous(query) ==
    \E keyword \in dangerous_keywords : \E i \in DOMAIN query : KeywordIn(keyword, query[i])

\* The statement sqlite3 runs: the verb after a WITH clause, else the first
\* word.
StatementVerbs ==
    {"select", "delete", "replace", "vacuum", "analyze", "reindex", "pragma", "attach"}
MainVerb(query) ==
    LET at == {i \in DOMAIN query : query[i] \in StatementVerbs}
    IN  query[CHOOSE i \in at : \A j \in at : i <= j]

\* The sqlite3 module opens a transaction before a statement that starts
\* with one of these words; conn.close() without commit() rolls it back.
\* Every other statement runs in autocommit mode.
ImplicitTransaction(query) == query[1] \in {"insert", "update", "delete", "replace"}

QueryLine(query) ==
    [head |-> MainVerb(query),
     table |-> IF MainVerb(query) \in {"delete", "replace"} THEN "item_inventory" ELSE "",
     preds |-> <<>>]

\* VALUES (0,0)
ReplacedRow == [owner_id |-> 0, inv_type |-> 0]

\* main(), choice "9"
main_interactive ==
    /\ pc = "top"
    /\ pc' = "sql"
    /\ issued' = <<>>
    /\ UNCHANGED <<db, days, item_inventory, analysis, cleanup_commands, cmd, confirm1, confirm2>>

\* One turn of the SQL> loop.  'tables' and 'describe' read the schema.
run_interactive_mode(query) ==
    /\ pc = "sql"
    /\ pc' = IF query = <<"exit">> THEN "top" ELSE "sql"
    /\ UNCHANGED <<damage_columns, characters, actor_position, guilds, game_events,
                   days, backup_files, returned,
                   analysis, cleanup_commands, cmd, confirm1, confirm2>>
    /\ IF query[1] \in {"exit", "tables", "describe"} \/ is_dangerous(query)
       THEN issued' = <<>> /\ UNCHANGED <<tables, item_inventory>>
       ELSE /\ issued' = <<Stmt(QueryLine(query), "run_interactive_mode", {}, <<>>, TRUE)>>
            /\ tables' = IF MainVerb(query) = "analyze"
                         THEN tables \cup {"sqlite_stat1"} ELSE tables
            /\ item_inventory' =
                  IF MainVerb(query) = "replace" /\ ~ImplicitTransaction(query)
                  THEN item_inventory \cup {ReplacedRow} ELSE item_inventory

\* A fourth specification: the interactive query mode on full databases.
InitInteractive ==
    /\ tables = FullTables
    /\ damage_columns = TRUE
    /\ characters \in CharacterTables
    /\ actor_position = {3}
    /\ guilds = GuildIds
    /\ item_inventory \in {I \in ItemTables : Cardinality(I) <= MaxRows - 1}
    /\ game_events = NoEvents
    /\ days = 0
    /\ pc = "top"
    /\ analysis = NoAnalysis
    /\ cleanup_commands = <<>>
    /\ cmd = 0
    /\ confirm1 = ""
    /\ confirm2 = ""
    /\ issued = <<>>
    /\ backup_files = 0
    /\ returned = <<>>

NextInteractive ==
    \/ main_interactive
    \/ \E query \in InteractiveQueries : run_interactive_mode(query)

SpecInteractive == InitInteractive /\ [][NextInteractive]_vars

\* ----------------- ConanExiles_SQLite_Database_Events_CleanUp_manager.py
\* The legacy events manager: module-level functions that run the sqlite3
\* command-line program.  Its queries name the column WorldTime;
\* game_events.time_column stands for that column here.

\* get_event_stats returns a dictionary (TRUE) or, after any exception,
\* None (FALSE): the table or the column is missing, or MIN and MAX of an
\* empty table do not parse as integers.
legacy_get_event_stats ==
    TableExists("game_events") /\ game_events.time_column /\ game_events.rows # {}

\* backup_database: os.system runs the copy command and its exit status is
\* dropped; copy_ok tells whether the command wrote the copy.
legacy_backup_database(copy_ok, result) ==
    /\ backup_files < MaxBackups
    /\ result = TRUE
    /\ backup_files' = IF copy_ok THEN backup_files + 1 ELSE backup_files

\* delete_old_events: an error of the count query leaves an empty output,
\* read as 0 events; the four statements of cleanup_cmd run one after the
\* other in autocommit mode, and any error text makes the result False.
legacy_delete_old_events(days_to_keep, confirm, fails_at, result) ==
    LET readable == TableExists("game_events") /\ game_events.time_column
        doomed == events_to_delete(days_to_keep)
        line == DeleteLine("game_events", <<TimeBefore(days_to_keep)>>)
    IN  IF ~readable \/ fails_at = "count" \/ doomed = {} \/ confirm # "y"
        THEN result = FALSE /\ issued' = <<>> /\ UNCHANGED game_events
        ELSE IF fails_at = "delete"
        THEN /\ result = FALSE
             /\ issued' = <<Stmt(line, "legacy_delete_old_events", {}, <<confirm>>, FALSE)>>
             /\ UNCHANGED game_events
        ELSE /\ result = (fails_at # "optimize")
             /\ game_events' = [game_events EXCEPT !.rows = @ \ doomed]
             /\ issued' = <<Stmt(line, "legacy_delete_old_events", {}, <<confirm>>, TRUE),
                            Stmt(VacuumLine, "legacy_delete_old_events", {}, <<confirm>>,
                                 fails_at # "optimize")>>

\* main() at its menu prompt.  Choices 2 and 3 hand the statistics to
\* show_days_recommendation, which raises on None and ends the program;
\* choice 3 then writes a script file.
legacy_main(choice, copy_ok) ==
    /\ pc = "legacy_menu"
    /\ pc' = CASE choice \in {2, 3} /\ ~legacy_get_event_stats -> "legacy_exit"
               [] choice = 2 -> "legacy_days"
               [] choice = 5 -> "legacy_exit"
               [] OTHER -> "legacy_menu"
    /\ issued' = <<>>
    /\ returned' = <<>>
    /\ IF choice = 4
       THEN \E result \in BOOLEAN : legacy_backup_database(copy_ok, result)
       ELSE UNCHANGED backup_files
    /\ EventsFrame /\ UNCHANGED <<game_events, days>>

\* The prompt for the days to keep of choice 2, the backup and the deletion.
legacy_main_days(days_input, confirm365, copy_ok, confirm, fails_at) ==
    /\ pc = "legacy_days"
    /\ EventsFrame /\ UNCHANGED days
    /\ IF days_input.kind = "c"
       THEN /\ pc' = "legacy_menu" /\ issued' = <<>> /\ returned' = <<>>
            /\ UNCHANGED <<game_events, backup_files>>
       ELSE IF \/ days_input.kind = "text"
               \/ days_input.value < 1
               \/ (days_input.value > 365 /\ confirm365 # "y")
       THEN /\ issued' = <<>> /\ returned' = <<>>
            /\ UNCHANGED <<pc, game_events, backup_files>>
       ELSE /\ pc' = "legacy_menu"
            /\ \E backed \in BOOLEAN :
                  /\ legacy_backup_database(copy_ok, backed)
                  /\ IF backed
                     THEN \E result \in BOOLEAN :
                             /\ legacy_delete_old_events(days_input.value, confirm,
                                                         fails_at, result)
                             /\ returned' = <<result>>
                     ELSE /\ issued' = <<>> /\ returned' = <<>>
                          /\ UNCHANGED game_events

\* A fifth specification: the legacy events manager, started on databases
\* with and without a game_events table.
InitLegacy ==
    /\ tables \in {FullTables, FullTables \cup {"game_events"}}
    /\ damage_columns = TRUE
    /\ characters = {[id |-> 1, isAlive |-> 1]}
    /\ actor_position = {3}
    /\ guilds = GuildIds
    /\ item_inventory = {}
    /\ game_events \in (IF "game_events" \in tables THEN EventTables ELSE {NoEvents})
    /\ days = 0
    /\ pc = "legacy_menu"
    /\ analysis = NoAnalysis
    /\ cleanup_commands = <<>>
    /\ cmd = 0
    /\ confirm1 = ""
    /\ confirm2 = ""
    /\ issued = <<>>
    /\ backup_files = 0
    /\ returned = <<>>

NextLegacy ==
    \/ \E choice \in EventsMenuChoices, copy_ok \in BOOLEAN : legacy_main(choice, copy_ok)
    \/ \E days_input \in DaysInputs, confirm365 \in YesNoInputs, copy_ok \in BOOLEAN,
          confirm \in YesNoInputs, fails_at \in Failures :
          legacy_main_days(days_input, confirm365, copy_ok, confirm, fails_at)

SpecLegacy == InitLegacy /\ [][NextLegacy]_vars

\* ------------------------------------------- analysis of given databases
\* A second specification: one analysis pass (analyze_orphaned_items,
\* print_analysis and the menu that follows) over databases with larger
\* ids than those of Init.

\* The database of the worked scenario: characters 1 and 2, each alive or
\* not, structure 100, no guild, and items owned by 1, 100 and 999, each
\* owner with items of any slot types.
ScenarioOwners == {1, 100, 999}
ScenarioItemTables ==
    {I \in SUBSET [owner_id : ScenarioOwners, inv_type : InvTypes] :
        {r.owner_id : r \in I} = ScenarioOwners}
ScenarioCharacterTables ==
    {{[id |-> i, isAlive |-> f[i]] : i \in {1, 2}} : f \in [{1, 2} -> {0, 1}]}

\* Orphaned-id sets for analyze_id_patterns: every set whose smallest id
\* is 1 or 2 and whose consecutive ids differ by 1 (adjacent) or 2 (a new
\* range), with up to MaxPatternIds ids, and three sets with larger ids.
RECURSIVE SumTo(_, _)
SumTo(g, k) == IF k = 0 THEN 0 ELSE g[k] + SumTo(g, k - 1)
GapSequences == UNION {[1..n -> {1, 2}] : n \in 0..MaxPatternIds}
PatternInputs ==
    {{SumTo(g, k) : k \in DOMAIN g} : g \in GapSequences}
    \cup {100..109, 100..110, {5, 50, 500, 5000, 50000}}

InitAnalysis ==
    /\ tables = FullTables
    /\ damage_columns = TRUE
    /\ \/ /\ characters \in ScenarioCharacterTables
          /\ actor_position = {100}
          /\ item_inventory \in ScenarioItemTables
       \/ /\ characters = {}
          /\ actor_position = {}
          /\ \E ids \in PatternInputs :
                item_inventory = {[owner_id |-> i, inv_type |-> 0] : i \in ids}
    /\ guilds = {}
    /\ game_events = NoEvents
    /\ days = 0
    /\ pc = "top"
    /\ analysis = NoAnalysis
    /\ cleanup_commands = <<>>
    /\ cmd = 0
    /\ confirm1 = ""
    /\ confirm2 = ""
    /\ issued = <<>>
    /\ backup_files = 0
    /\ returned = <<>>

NextAnalysis ==
    \/ OrphanedAnalysis
    \/ \E choice \in MenuChoices : run_main_menu(choice)
    \/ \E choice \in MenuChoices : run_main_menu_damage(choice)

SpecAnalysis == InitAnalysis /\ [][NextAnalysis]_vars

\* =================================================================== claims
\* Owner references of the given item rows that are neither a character id
\* nor a structure id.
OrphanedOwners(rows) ==
    ({r.owner_id : r \in rows} \ existing_chars) \ existing_structures

\* The DELETE statements on item_inventory the last step sent.
ItemDeletes ==
    {issued[i] : i \in {j \in DOMAIN issued :
        issued[j].line.head = "DELETE" /\ issued[j].line.table = "item_inventory"}}

\* C1: when the Safe action (the first command of the three-action plan) has
\* been executed through execute_cleanup_command after both confirmations,
\* the item rows left are exactly the rows that were there before minus the
\* rows whose owner is orphaned; rows of characters and structures remain.
C1_SafeRemovesExactlyOrphanedRows ==
    \A s \in ItemDeletes :
        (s.via = "execute_cleanup_command" /\ "RECOMMENDED" \in s.title /\ s.ok)
        => item_inventory = {r \in s.before : r.owner_id \notin OrphanedOwners(s.before)}

\* C2: a DELETE that run_automated_cleanup executes from the recommendations
\* of generate_cleanup_recommendations removes no item row owned by an
\* existing structure (its condition is the full classification, not the
\* single test 'owner not in characters').
C2_RecommendationsSpareStructureRows ==
    \A s \in ItemDeletes :
        (s.via = "run_automated_cleanup" /\ s.ok)
        => \A r \in s.before : r.owner_id \in actor_position => r \in item_inventory

\* The menus hold the result of an analysis that completed, and the
\* database is still the one that was analysed.
AnalysisJustDone == pc \in {"main_menu", "export_menu"} /\ ~analysis.error

\* The classes of the observed owner references: orphaned and structure as
\* analyze_orphaned_items computes them, character and guild by the same
\* intersection with their table.
ClassOrphaned == deleted_char_ids
ClassStructure == structure_owned_items
ClassActiveCharacter == all_owner_ids \cap existing_chars
ClassGuild == all_owner_ids \cap guilds

\* C3: after an analysis the classes active_character, structure, guild and
\* orphaned are pairwise disjoint and their union is the observed
\* owner-reference set minus reference 0.
C3_ClassesPartitionOwnerRefs ==
    AnalysisJustDone =>
        /\ ClassActiveCharacter \cap ClassStructure = {}
        /\ ClassActiveCharacter \cap ClassGuild = {}
        /\ ClassActiveCharacter \cap ClassOrphaned = {}
        /\ ClassStructure \cap ClassGuild = {}
        /\ ClassStructure \cap ClassOrphaned = {}
        /\ ClassGuild \cap ClassOrphaned = {}
        /\ ClassActiveCharacter \cup ClassStructure \cup ClassGuild \cup ClassOrphaned
               = all_owner_ids \ {0}

\* A row satisfies every condition written on the statement lines of a
\* command's sql text (the statement as the plan displays it).
MatchesPredicate(r, c) ==
    \A i \in DOMAIN sql_lines(c) :
        \A j \in DOMAIN sql_lines(c)[i].preds : RowMatches(r, sql_lines(c)[i].preds[j])

\* C4: the ids reported orphaned are exactly the owner references absent
\* from the character, structure and guild id spaces, and the predicate of
\* the Safe action matches no row owned by an existing guild id.
C4_OrphanedIffAbsentFromAllSpaces ==
    AnalysisJustDone =>
        /\ {d.id : d \in analysis.deleted_characters}
               = ((all_owner_ids \ existing_chars) \ existing_structures) \ guilds
        /\ Len(cleanup_commands) = 3 =>
               \A r \in item_inventory :
                   r.owner_id \in guilds => ~MatchesPredicate(r, cleanup_commands[1])

\* C5: when the damage detector flags a character of the analysed database,
\* the analysis has cleanup_damage_detected set and the plan is exactly the
\* one damage-control (Blocked) action, whatever the orphaned references.
C5_DamageBlocksPlan ==
    (AnalysisJustDone /\ analyze_cleanup_damage # {}) =>
        /\ analysis.cleanup_damage_detected
        /\ cleanup_commands = <<DamageControlCommand>>
        /\ delete_lines(cleanup_commands[1]) = <<>>

C5_Witness ==
    /\ AnalysisJustDone
    /\ analyze_cleanup_damage # {}
    /\ analysis.total_deleted_characters >= 2
    /\ Len(cleanup_commands) = 1

\* Prompts inside execute_cleanup_command.
ExecutePcs == {"confirm1", "confirm2", "vacuum_prompt"}

\* C6: while the analysis held by the menus has flagged a character, the
\* program is at no prompt of execute_cleanup_command and no statement it
\* sent under that analysis is a DELETE.
C6_BlockedNeverExecutes ==
    /\ analysis.affected_active_players # {} => pc \notin ExecutePcs
    /\ \A i \in DOMAIN issued : issued[i].flagged => issued[i].line.head # "DELETE"

C6_Witness ==
    /\ pc = "top"
    /\ issued # <<>>
    /\ issued[1].flagged
    /\ issued[1].via = "run_main_menu"

\* C7: the Dangerous action is never the command handed to
\* show_cleanup_details_and_execute's prompt or to execute_cleanup_command,
\* and no statement sent to the database comes from it.
C7_DangerousNeverExecuted ==
    /\ pc \in ExecutePcs \cup {"exec_options"} => "DANGEROUS" \notin cleanup_commands[cmd].title
    /\ \A i \in DOMAIN issued : "DANGEROUS" \notin issued[i].title

C7_Witness ==
    /\ pc = "vacuum_prompt"
    /\ Len(cleanup_commands) = 3
    /\ "DANGEROUS" \in cleanup_commands[3].title
    /\ ItemDeletes # {}

\* C8: every DELETE on item_inventory was sent after the two confirmations,
\* the backup acknowledgment and then the execute token, in the same flow.
C8_DeleteNeedsTwoConfirmations ==
    \A s \in ItemDeletes : s.confirmations = <<"BACKUP DONE", "EXECUTE">>

\* C9: execute_cleanup_command runs a DELETE only if the damage detector,
\* on the database as it is at execution time, flags no character.
C9_ExecuteRevalidatesBlock ==
    \A s \in ItemDeletes : s.via = "execute_cleanup_command" => ~s.damage_now

\* C10: with a non-empty orphaned set and no damage detected the plan is
\* exactly Safe, Conservative, Dangerous in this order, and the count on the
\* Dangerous action is the number of structure-owned owner references.
C10_ThreeActionPlan ==
    (pc = "main_menu" /\ ~analysis.error
       /\ deleted_char_ids # {} /\ ~analysis.cleanup_damage_detected) =>
        /\ Len(cleanup_commands) = 3
        /\ "RECOMMENDED" \in cleanup_commands[1].title
        /\ "CONSERVATIVE" \in cleanup_commands[2].title
        /\ "DANGEROUS" \in cleanup_commands[3].title
        /\ cleanup_commands[3].impact = Cardinality(all_owner_ids \cap actor_position)

C10_Witness ==
    /\ pc = "main_menu"
    /\ Len(cleanup_commands) = 3
    /\ cleanup_commands[3].impact = 2
    /\ analysis.total_deleted_characters = 1

\* Ids the held analysis reports orphaned.
ReportedOrphaned == {d.id : d \in analysis.deleted_characters}

\* C11: after an analysis with an empty orphaned set and no flagged
\* character the plan is exactly the one 'no cleanup needed' entry, which
\* has no statement line; with a non-empty orphaned set no command of the
\* plan is that entry.
C11_NoCleanupNeededPlan ==
    AnalysisJustDone =>
        /\ (deleted_char_ids = {} /\ analysis.affected_active_players = {}) =>
               /\ cleanup_commands = <<NoCleanupNeededCommand>>
               /\ sql_lines(cleanup_commands[1]) = <<>>
        /\ deleted_char_ids # {} =>
               \A i \in DOMAIN cleanup_commands : "NEEDED" \notin cleanup_commands[i].title

C11_Witness ==
    /\ pc = "main_menu"
    /\ Len(cleanup_commands) = 1
    /\ "NEEDED" \in cleanup_commands[1].title
    /\ Cardinality(item_inventory) >= 2
    /\ \E c \in characters : c.isAlive = 1

\* The scenario's database has just been analysed.
ScenarioAnalysed == AnalysisJustDone /\ all_owner_ids = ScenarioOwners

\* Owners of the item rows that satisfy the conditions of a command.
OwnersMatched(c) == {r.owner_id : r \in {x \in item_inventory : MatchesPredicate(x, c)}}

\* The classification and the ranges of the scenario: 1 is a character and
\* in no other class, 100 is the one structure owner, 999 the one orphaned
\* id, the ranges are the single range 999 and appears_sequential is false.
ScenarioClassified ==
    /\ 1 \in existing_chars /\ 1 \notin ReportedOrphaned /\ 1 \notin structure_owned_items
    /\ structure_owned_items = {100} /\ analysis.structure_owned_items = 1
    /\ ReportedOrphaned = {999} /\ analysis.total_deleted_characters = 1
    /\ analysis.id_ranges.id_ranges = <<RangeString(999, 999)>>
    /\ analysis.id_ranges.total_ranges = 1
    /\ ~analysis.id_ranges.appears_sequential

\* The plan has a Safe action whose conditions match exactly owner 999.
ScenarioSafeAction ==
    \E i \in DOMAIN cleanup_commands :
        /\ "RECOMMENDED" \in cleanup_commands[i].title
        /\ OwnersMatched(cleanup_commands[i]) = {999}

\* C12 (as stated): for characters {1,2}, structures {100}, no guild and
\* item owners {1,100,999}, the analysis classifies 1 as character, 100 as
\* structure, 999 as orphaned with the single range 999 and
\* appears_sequential false, and the plan has a Safe action whose
\* conditions match exactly owner 999.
C12_ScenarioPlanHasSafeAction ==
    ScenarioAnalysed => (ScenarioClassified /\ ScenarioSafeAction)

\* C12 (amended): the classification and the ranges are as stated; the plan
\* has the Safe action matching exactly owner 999 when the damage detector
\* flags no character, and is the single damage-control action when it
\* flags one (an alive character 2, who owns no item, is always flagged).
C12_ScenarioPlanUnlessBlocked ==
    ScenarioAnalysed =>
        /\ ScenarioClassified
        /\ IF analysis.affected_active_players = {}
           THEN ScenarioSafeAction
           ELSE cleanup_commands = <<DamageControlCommand>>
        /\ (\E c \in characters : c.id = 2 /\ c.isAlive = 1) =>
               analysis.cleanup_damage_detected

C12_Witness ==
    /\ ScenarioAnalysed
    /\ pc = "main_menu"
    /\ Len(cleanup_commands) = 3
    /\ \E c \in characters : c.id = 1 /\ c.isAlive = 1

\* Ids a range string denotes, and the union of a list of ranges.
RangeIds(r) == r[1]..r[Len(r)]
RangeUnion(ranges) == UNION {RangeIds(ranges[i]) : i \in DOMAIN ranges}

\* C13: the range list of an analysis is sorted ascending, non-overlapping
\* and non-adjacent, its union is the orphaned-id set, and decomposing the
\* union again gives the same list.
C13_RangesDecomposeOrphanedSet ==
    (pc = "main_menu" /\ ~analysis.error) =>
        LET ranges == analysis.id_ranges.id_ranges
        IN  /\ \A i \in DOMAIN ranges : ranges[i][1] <= ranges[i][Len(ranges[i])]
            /\ \A i \in 1..(Len(ranges) - 1) :
                   ranges[i][Len(ranges[i])] + 1 < ranges[i + 1][1]
            /\ RangeUnion(ranges) = ReportedOrphaned
            /\ analyze_id_patterns(RangeUnion(ranges)).id_ranges = ranges

\* The orphaned-id set of the analysis just made is S.
PatternAnalysed(S) == pc = "main_menu" /\ ~analysis.error /\ ReportedOrphaned = S

\* C14 (as stated): appears_sequential is true for {100..109} (1 range)
\* and false for {5, 50, 500, 5000, 50000} (5 ranges).
C14_SequentialExamples ==
    /\ PatternAnalysed(100..109) =>
           (analysis.id_ranges.total_ranges = 1 /\ analysis.id_ranges.appears_sequential)
    /\ PatternAnalysed({5, 50, 500, 5000, 50000}) =>
           (analysis.id_ranges.total_ranges = 5 /\ ~analysis.id_ranges.appears_sequential)

\* C14 (amended): appears_sequential is false for {100..109} (1 range is
\* not fewer than 10 / 10), true for {100..110} (11 ids, 1 range) and
\* false for {5, 50, 500, 5000, 50000} (5 ranges).
C14_SequentialNeedsElevenIds ==
    /\ PatternAnalysed(100..109) =>
           (analysis.id_ranges.total_ranges = 1 /\ ~analysis.id_ranges.appears_sequential)
    /\ PatternAnalysed(100..110) =>
           (analysis.id_ranges.total_ranges = 1 /\ analysis.id_ranges.appears_sequential)
    /\ PatternAnalysed({5, 50, 500, 5000, 50000}) =>
           (analysis.id_ranges.total_ranges = 5 /\ ~analysis.id_ranges.appears_sequential)

C14_Witness ==
    /\ PatternAnalysed(100..109)
    /\ analysis.total_deleted_characters = 10
    /\ analysis.id_ranges.id_ranges = <<RangeString(100, 109)>>

\* C15: owner reference 0 is never reported orphaned, is in no range of
\* the orphaned ids, and no row it owns satisfies the conditions of a
\* statement of the plan.
C15_OwnerZeroExcluded ==
    AnalysisJustDone =>
        /\ 0 \notin ReportedOrphaned
        /\ 0 \notin RangeUnion(analysis.id_ranges.id_ranges)
        /\ \A i \in DOMAIN cleanup_commands :
               sql_lines(cleanup_commands[i]) # <<>> => 0 \notin OwnersMatched(cleanup_commands[i])

\* Characters with isAlive = 1, and the ids the held analysis has flagged.
ActiveCharacters == {c.id : c \in {x \in characters : x.isAlive = 1}}
FlaggedCharacters == {p.char_id : p \in analysis.affected_active_players}

\* The rule of the damage detector for one character.
SuspectedDamaged(id) ==
    \/ /\ \E r \in ItemsOf(id) : r.inv_type \in personal_inventory_types
       /\ ~\E r \in ItemsOf(id) : r.inv_type \in external_storage_types
       /\ Cardinality(ItemsOf(id)) > 0
    \/ Cardinality(ItemsOf(id)) = 0

\* Exactly the active characters the rule selects are flagged, each once.
DamageRuleApplied ==
    /\ \A id \in ActiveCharacters : id \in FlaggedCharacters <=> SuspectedDamaged(id)
    /\ FlaggedCharacters \subseteq ActiveCharacters
    /\ \A p, q \in analysis.affected_active_players : p.char_id = q.char_id => p = q

CharacterTableExists ==
    TableExists("characters") \/ TableExists("character") \/ TableExists("players")

\* C17: with the item table and a character table present the analysis
\* completes without an error result and a plan is generated, whether or
\* not the structure table and the guild table exist.
C17_OptionalTablesDegrade ==
    (pc \in {"main_menu", "export_menu"} /\ TableExists("item_inventory")
       /\ CharacterTableExists) =>
        (~analysis.error /\ cleanup_commands # <<>>)

\* C18: without the item table or without a character table the analysis
\* held by the menu is an error result with no orphaned id and no
\* command, and no step taken while an error result is held sends a DELETE.
C18_ErrorResultYieldsNoAction ==
    [][/\ (pc' \in {"main_menu", "export_menu"}
            /\ (~TableExists("item_inventory") \/ ~CharacterTableExists)') =>
              (analysis'.error /\ analysis'.deleted_characters = {}
               /\ cleanup_commands' = <<>> /\ pc' = "main_menu")
       /\ analysis.error =>
              (pc' \in {"main_menu", "top"}
               /\ \A i \in DOMAIN issued' : issued'[i].line.head # "DELETE")]_vars

C18_Witness ==
    /\ pc = "main_menu"
    /\ analysis.error
    /\ ~TableExists("characters") /\ ~TableExists("players")
    /\ item_inventory # {}

\* A step that runs delete_old_events or run_automated_cleanup with
\* dry_run = True: the dry run of the events menu, the command-line options
\* with --dry-run, and the dry run of main's choice 7.
DryRunStep ==
    \/ \E days_input \in DaysInputs, confirm365 \in YesNoInputs, fails_at \in Failures :
          run_cleanup_manager_days(days_input, confirm365, fails_at)
    \/ \E days_arg \in DaysValues, copy_ok \in BOOLEAN,
          confirm \in AutoConfirmInputs, fails_at \in Failures :
          main_events_cleanup_option(days_arg, TRUE, copy_ok, confirm, fails_at)
    \/ \E confirm \in AutoConfirmInputs, rejected \in BOOLEAN :
          main_cleanup_option(TRUE, confirm, rejected)
    \/ main_cleanup("y")

\* C19: a step in dry-run mode leaves every table as it was, whatever the
\* database and whatever the operator types.
C19_DryRunLeavesTablesUnchanged ==
    [][DryRunStep =>
          UNCHANGED <<tables, damage_columns, characters, actor_position, guilds,
                      item_inventory, game_events>>]_vars

C19_Witness ==
    /\ pc = "events_proceed"
    /\ events_to_delete(days) # {}
    /\ generate_cleanup_recommendations # <<>>

\* C20: interactive query mode is read-only: every statement it hands to
\* sqlite3 is a SELECT, and no turn of its loop changes the database.
C20_InteractiveModeReadOnly ==
    [][(\E query \in InteractiveQueries : run_interactive_mode(query)) =>
          /\ \A i \in DOMAIN issued' : issued'[i].line.head = "select"
          /\ UNCHANGED <<tables, damage_columns, characters, actor_position, guilds,
                         item_inventory, game_events>>]_vars

\* C21: when the Conservative action has been executed, the rows removed
\* all have an orphaned owner and a personal slot type (0-3): they are among
\* the rows the Safe action is meant to remove, and no row with an external
\* storage slot type and no row of a character or a structure is removed.
C21_ConservativeRemovesPersonalOrphanRows ==
    \A s \in ItemDeletes :
        (s.via = "execute_cleanup_command" /\ "CONSERVATIVE" \in s.title /\ s.ok)
        => \A r \in s.before \ item_inventory :
              /\ r.owner_id \in OrphanedOwners(s.before)
              /\ r.inv_type \in {0, 1, 2, 3}

\* Ids of a set that start a maximal run of consecutive ids.
RunStarts(S) == {x \in S : x - 1 \notin S}

\* C22: for a non-empty orphaned set, appears_sequential is true exactly
\* when 10 * range_count < orphaned_count, range_count being the number of
\* maximal runs of consecutive ids (total_ranges, not the ranges kept).
C22_SequentialIffFewRanges ==
    (AnalysisJustDone /\ ReportedOrphaned # {}) =>
        /\ analysis.id_ranges.total_ranges = Cardinality(RunStarts(ReportedOrphaned))
        /\ analysis.id_ranges.appears_sequential
             <=> (10 * Cardinality(RunStarts(ReportedOrphaned))
                     < Cardinality(ReportedOrphaned))

\* Eleven ids in two runs: more than ten ids, and still not sequential.
C22_Witness ==
    /\ AnalysisJustDone
    /\ Cardinality(ReportedOrphaned) = 11
    /\ Cardinality(RunStarts(ReportedOrphaned)) = 2
    /\ ~analysis.id_ranges.appears_sequential

\* Methods of a list of recovery possibilities.
Methods(possibilities) == {possibilities[i] : i \in DOMAIN possibilities}

\* C23: for an empty orphaned set, analyze_id_patterns yields no range, no
\* 'Mass deletion detected' possibility is produced and the pattern section
\* is not printed.
C23_EmptySetYieldsNoPattern ==
    (AnalysisJustDone /\ ReportedOrphaned = {}) =>
        /\ analysis.id_ranges.id_ranges = <<>>
        /\ analysis.id_ranges.total_ranges = 0
        /\ "Mass deletion detected" \notin Methods(generate_recovery_possibilities(analysis))
        /\ ~pattern_section_printed(analysis)

\* An analysis of items none of which is orphaned.
C23_Witness ==
    /\ AnalysisJustDone
    /\ ReportedOrphaned = {}
    /\ item_inventory # {}
    /\ "Check backup databases" \in Methods(generate_recovery_possibilities(analysis))

\* Item rows the condition 'owner NOT IN characters' matches although a
\* structure owns them.
WronglyDestroyedRows ==
    {r \in item_inventory :
        RowMatches(r, OwnerNotIn("characters")) /\ r.owner_id \in existing_structures}

\* C24: the count annotated on the Dangerous action is the number of item
\* rows owned by structures that 'owner NOT IN characters' would destroy.
C24_DangerousCountsStructureRows ==
    (pc = "main_menu" /\ Len(cleanup_commands) = 3) =>
        cleanup_commands[3].impact = Cardinality(WronglyDestroyedRows)

\* C25: the count annotated on the Safe action is the sum of the item
\* counts loaded for the orphaned ids, which is the number of item rows
\* whose owner was reported orphaned and the number of rows the
\* conditions of its statement match on the database analysed.
C25_SafeCountMatchesPredicate ==
    (pc = "main_menu" /\ Len(cleanup_commands) = 3) =>
        /\ cleanup_commands[1].impact = analysis.total_orphaned_items
        /\ cleanup_commands[1].impact
             = Cardinality({r \in item_inventory : r.owner_id \in ReportedOrphaned})
        /\ cleanup_commands[1].impact
             = Cardinality({r \in item_inventory : MatchesPredicate(r, cleanup_commands[1])})

\* One orphaned owner with two rows, next to rows of other owners.
C25_Witness ==
    /\ pc = "main_menu"
    /\ Len(cleanup_commands) = 3
    /\ cleanup_commands[1].impact = 2
    /\ Cardinality(ReportedOrphaned) = 1
    /\ Cardinality(item_inventory) = 3

\* Statements execute_cleanup_command sent in the last step.
ExecuteStatements ==
    {i \in DOMAIN issued : issued[i].via = "execute_cleanup_command"}

\* C26: when the database rejects the statement of a confirmed action,
\* execute_cleanup_command reports the error and returns to the menu, the
\* statement has been attempted once and not again, and item_inventory is
\* as it was before the attempt.
C26_RejectedStatementChangesNothing ==
    \A i \in ExecuteStatements :
        ~issued[i].ok =>
            /\ item_inventory = issued[i].before
            /\ \A j \in ExecuteStatements : issued[j].line = issued[i].line => j = i
            /\ pc = "cleanup_menu"

C26_Witness ==
    /\ pc = "cleanup_menu"
    /\ \E i \in ExecuteStatements :
          /\ ~issued[i].ok
          /\ issued[i].confirmations = <<"BACKUP DONE", "EXECUTE">>
          /\ issued[i].before # {}
    /\ Cardinality(item_inventory) >= 2

\* C27: when the query of the damage detector cannot be run (the character
\* table lacks a column it reads), the analysis ends in an error result and
\* the plan holds neither the Safe nor the Conservative action.
C27_FailedDamageCheckReported ==
    (pc \in {"main_menu", "export_menu"} /\ ~damage_columns) =>
        /\ analysis.error
        /\ \A i \in DOMAIN cleanup_commands :
              cleanup_commands[i].title \cap {"RECOMMENDED", "CONSERVATIVE"} = {}

\* C28: in the events flows of EventsCleanupManager a step that deletes
\* rows of game_events has written a backup copy first and has been
\* confirmed with 'YES'; in the menu flow it follows a dry run that
\* returned True.  A step whose backup fails deletes nothing.
C28_EventsDeleteAfterBackup ==
    [][game_events' # game_events =>
          /\ backup_files' = backup_files + 1
          /\ issued' # <<>>
          /\ \A i \in DOMAIN issued' : issued'[i].confirmations = <<"YES">>
          /\ pc \in {"events_proceed", "top"}
          /\ pc = "events_proceed" => (returned = <<TRUE>> /\ days >= 1)]_vars

\* Back at the menu after a live run that deleted some events and kept others.
C28_Witness ==
    /\ pc = "events_menu"
    /\ returned = <<TRUE>>
    /\ issued # <<>>
    /\ issued[1].line.table = "game_events"
    /\ issued[1].ok
    /\ backup_files = 1
    /\ game_events.rows # {}

\* C30: a call of delete_old_events that returns False has deleted no row
\* of game_events, and a live call that sent its DELETE and returns True
\* has removed exactly the events older than the cutoff.
C30_FalseMeansNothingDeleted ==
    [][/\ returned' = <<FALSE>> => UNCHANGED game_events
       /\ (returned' = <<TRUE>> /\ issued' # <<>> /\ issued'[1].via = "delete_old_events")
            => \A d \in issued'[1].line.preds[1].types :
                  game_events'.rows = game_events.rows \ events_to_delete(d)]_vars

\* C29: in the legacy events manager a step that deletes rows of
\* game_events has written a backup copy of the database first; when the
\* copy command fails, no event is deleted.
C29_LegacyDeleteAfterBackup ==
    [][game_events' # game_events => backup_files' = backup_files + 1]_vars

====
